---- MODULE Spec2Model ----
(***************************************************************************)
(* AI Content Generator (src/app.py): its history store, its prompt        *)
(* builder, its generation client and the buttons of its two pages.        *)
(*                                                                         *)
(* The store is one JSON file, content_history.json, holding a list of     *)
(* records.  Every operation reads the whole file, changes the list in     *)
(* memory and writes the whole file back.  Text is modelled as a sequence  *)
(* of one-character strings, so that lower-casing, substring search and    *)
(* the text export are computed character by character.                    *)
(***************************************************************************)
EXTENDS Integers, Sequences, FiniteSets, TLC

VARIABLES
    file,                 \* content_history.json
    now,                  \* datetime.datetime.now(), as a tick counter
    confirm_clear_all,    \* st.session_state.confirm_clear_all, per session
    confirm_bulk_delete,  \* st.session_state.confirm_bulk_delete, per session
    pc,                   \* per session: position inside a running handler
    buf,                  \* per session: locals of the running handler
    current_content,      \* st.session_state.current_content of session 1: <<>> or <<the dict>>
    confirm_delete,       \* st.session_state["confirm_delete_<id>"] of session 1, per id
    armed,                \* per id: timestamp of the record whose delete button set the flag
    last                  \* the last operation: its argument, the history before it, its result

\* Session state of the generator page and of the per-record delete buttons.
page == <<current_content, confirm_delete, armed>>

vars == <<file, now, confirm_clear_all, confirm_bulk_delete, pc, buf, page, last>>

\* Bound on the number of save_to_history calls in a run.
MaxSaves == 3

\* The browser sessions that share the history file.
Sessions == {1, 2}

----------------------------------------------------------------------------
(* Text *)

UpperCase == <<"A", "B", "C", "D", "E", "F", "G", "H", "I", "J", "K", "L", "M",
               "N", "O", "P", "Q", "R", "S", "T", "U", "V", "W", "X", "Y", "Z">>

LowerCase == <<"a", "b", "c", "d", "e", "f", "g", "h", "i", "j", "k", "l", "m",
               "n", "o", "p", "q", "r", "s", "t", "u", "v", "w", "x", "y", "z">>

Digits == <<"0", "1", "2", "3", "4", "5", "6", "7", "8", "9">>

\* str.lower() on one character
LowerChar(c) ==
    IF \E i \in 1..26 : UpperCase[i] = c
    THEN LowerCase[CHOOSE i \in 1..26 : UpperCase[i] = c]
    ELSE c

\* str.lower()
lower(s) == [i \in 1..Len(s) |-> LowerChar(s[i])]

\* Python's  needle in hay  on strings
Contains(needle, hay) ==
    \E i \in 0..(Len(hay) - Len(needle)) :
        SubSeq(hay, i + 1, i + Len(needle)) = needle

\* str(n) for a non-negative integer
RECURSIVE IntToStr(_)
IntToStr(n) ==
    IF n < 10 THEN <<Digits[n + 1]>>
    ELSE IntToStr(n \div 10) \o <<Digits[(n % 10) + 1]>>

\* c * n
Rep(c, n) == [i \in 1..n |-> c]

\* datetime.datetime.now().isoformat() at tick t
isoformat(t) == <<"T">> \o IntToStr(t)

----------------------------------------------------------------------------
(* Inputs *)

Quote == <<"Q", "u", "o", "t", "e">>
Poem == <<"P", "o", "e", "m">>
All == <<"A", "l", "l">>

\* The content dictionaries the generator page hands to save_to_history.
Contents ==
    { [keyword |-> <<"L", "o">>, content_type |-> Quote,
       language |-> <<"E", "n", "g", "l", "i", "s", "h">>,
       tone |-> <<"F", "u", "n", "n", "y">>,
       audience |-> <<"G", "e", "n", "e", "r", "a", "l">>,
       rhyme_scheme |-> <<"F", "r", "e", "e", " ", "V", "e", "r", "s", "e">>,
       length_words |-> 12, tags |-> <<>>, output |-> <<"h", "i">>],
      [keyword |-> <<"x">>, content_type |-> Poem,
       language |-> <<"F", "r", "e", "n", "c", "h">>,
       tone |-> <<"I", "n", "s", "p", "i", "r", "a", "t", "i", "o", "n", "a", "l">>,
       audience |-> <<"G", "e", "n", "e", "r", "a", "l">>,
       rhyme_scheme |-> <<"A", "B", "A", "B">>,
       length_words |-> 50, tags |-> <<"l", "O">>, output |-> <<"L", "o", "x">>] }

\* Ids passed to toggle_favorite and delete_content; the last one is never assigned.
Ids == 1..(MaxSaves + 1)

\* Search queries typed into the history page.
Queries == { <<"l", "O">>, <<"x">>, <<"z">> }

\* Settings of the history page's search box, type filter and favorites checkbox.
Filters ==
    { <<query, All, FALSE>> : query \in Queries }
    \cup { <<(<<>>), All, FALSE>>, <<(<<>>), Poem, FALSE>>, <<(<<>>), All, TRUE>> }

----------------------------------------------------------------------------
(* The file *)

\* No content_history.json in the working directory.
Absent == [exists |-> FALSE, kind |-> "none", recs |-> <<>>]

\* The file right after open(..., "w"): it exists and is empty, which is not JSON.
Truncated == [exists |-> TRUE, kind |-> "empty", recs |-> <<>>]

\* The file after json.dump(history, f) and close, nothing else having written to it.
Dump(history) == [exists |-> TRUE, kind |-> "json", recs |-> history]

\* The JSON text of history followed by the rest of a longer text that another
\* writer put there in the meantime: json.load rejects it.
Garbage(history) == [exists |-> TRUE, kind |-> "garbage", recs |-> history]

\* load_history reading whatever records the text starts with, the parse error ignored.
load_history_lenient(f) ==
    IF f.exists THEN f.recs ELSE <<>>

load_history(f) ==
    IF f.exists
    THEN IF f.kind = "json" THEN f.recs ELSE <<>>
    ELSE <<>>

\* A close that adds the text after what the file holds instead of overwriting it.
Written_after(f, history) == {Dump(load_history(f) \o history)}

\* The files that closing a handle opened with "w" can leave, when the file holds f
\* at that moment and the handle wrote the JSON text of history from position 0.
\* The text overwrites from the start; what another writer stored beyond its
\* length stays.
Written(f, history) ==
    IF f.kind = "empty" \/ (f.kind = "json" /\ f.recs = <<>>)
    THEN {Dump(history)}
    ELSE IF history = <<>>
         THEN {Garbage(history)}
         ELSE {Dump(history), Garbage(history)}

----------------------------------------------------------------------------
(* Store operations, as functions of the file *)

\* The list save_to_history writes: record gets id, timestamp and favorite.
Stamped(history, record, t) ==
    Append(history,
           [id |-> Len(history) + 1, timestamp |-> isoformat(t), favorite |-> FALSE] @@ record)

save_to_history(f, record, t) == Dump(Stamped(load_history(f), record, t))

\* The search loop falling through to the last record when no id matches.
FirstMatch_fallthrough(history, item_id) ==
    IF \E i \in 1..Len(history) : history[i].id = item_id
    THEN CHOOSE i \in 1..Len(history) :
            /\ history[i].id = item_id
            /\ \A j \in 1..(i - 1) : history[j].id # item_id
    ELSE Len(history)

\* Index of the first record of the list with this id, 0 if there is none.
FirstMatch(history, item_id) ==
    IF \E i \in 1..Len(history) : history[i].id = item_id
    THEN CHOOSE i \in 1..Len(history) :
            /\ history[i].id = item_id
            /\ \A j \in 1..(i - 1) : history[j].id # item_id
    ELSE 0

\* toggle_favorite without the break: every record with the id is flipped.
Toggled_all(history, item_id) ==
    [i \in 1..Len(history) |->
        IF history[i].id = item_id
        THEN [history[i] EXCEPT !.favorite = ~history[i].favorite]
        ELSE history[i]]

\* toggle_favorite setting the flag instead of flipping it.
Toggled_set(history, item_id) ==
    LET i == FirstMatch(history, item_id)
    IN  IF i = 0 THEN history
        ELSE [history EXCEPT ![i].favorite = TRUE]

Toggled(history, item_id) ==
    LET i == FirstMatch(history, item_id)
    IN  IF i = 0 THEN history
        ELSE [history EXCEPT ![i].favorite = ~history[i].favorite]

toggle_favorite(f, item_id) == Dump(Toggled(load_history(f), item_id))

\* updated_history of delete_content
Without(history, item_id) == SelectSeq(history, LAMBDA item : item.id # item_id)

\* delete_content: the file it writes and the value it returns
delete_content(f, item_id) ==
    LET history == load_history(f)
        updated_history == Without(history, item_id)
    IN  [file |-> Dump(updated_history),
         ret  |-> Len(history) # Len(updated_history)]

\* search_history without the substring test.
Matches_filters_only(item, query, filter_type, filter_favorite) ==
    /\ ~(filter_favorite /\ ~item.favorite)
    /\ ~(filter_type # <<>> /\ filter_type # All /\ item.content_type # filter_type)

Matches(item, query, filter_type, filter_favorite) ==
    /\ ~(filter_favorite /\ ~item.favorite)
    /\ ~(filter_type # <<>> /\ filter_type # All /\ item.content_type # filter_type)
    /\ \/ Contains(lower(query), lower(item.keyword))
       \/ Contains(lower(query), lower(item.output))
       \/ Contains(lower(query), lower(item.tags))

search_history(f, query, filter_type, filter_favorite) ==
    SelectSeq(load_history(f),
              LAMBDA item : Matches(item, query, filter_type, filter_favorite))

----------------------------------------------------------------------------
(* Text export *)

Title == <<"A", "I", " ", "Q", "u", "o", "t", "e", " ", "&", " ", "P", "o", "e", "m", " ",
           "G", "e", "n", "e", "r", "a", "t", "o", "r", " ", "-", " ",
           "C", "o", "n", "t", "e", "n", "t", " ", "H", "i", "s", "t", "o", "r", "y", "\n">>

Header == Title \o Rep("=", 50) \o <<"\n", "\n">>

Rule == Rep("-", 30) \o <<"\n", "\n">>

IdLine(item) == <<"I", "D", ":", " ">> \o IntToStr(item.id) \o <<"\n">>

KeywordLine(item) ==
    <<"K", "e", "y", "w", "o", "r", "d", ":", " ">> \o item.keyword \o <<"\n">>

\* The text export_history_as_text adds for one record.
Block(item) ==
    IdLine(item)
    \o KeywordLine(item)
    \o <<"T", "y", "p", "e", ":", " ">> \o item.content_type \o <<"\n">>
    \o <<"L", "a", "n", "g", "u", "a", "g", "e", ":", " ">> \o item.language \o <<"\n">>
    \o <<"T", "o", "n", "e", ":", " ">> \o item.tone \o <<"\n">>
    \o <<"D", "a", "t", "e", ":", " ">> \o item.timestamp \o <<"\n">>
    \o <<"F", "a", "v", "o", "r", "i", "t", "e", ":", " ">>
    \o (IF item.favorite THEN <<"Y", "e", "s">> ELSE <<"N", "o">>) \o <<"\n">>
    \o <<"T", "a", "g", "s", ":", " ">> \o item.tags \o <<"\n">>
    \o <<"C", "o", "n", "t", "e", "n", "t", ":", "\n">> \o item.output \o <<"\n">>
    \o Rule

\* The export loop walking the history newest first, as the history page does.
RECURSIVE ExportFrom_reversed(_, _, _)
ExportFrom_reversed(history, i, content) ==
    IF i > Len(history) THEN content
    ELSE ExportFrom_reversed(history, i + 1,
                             content \o Block(history[Len(history) + 1 - i]))

\* The loop of export_history_as_text from record i on.
RECURSIVE ExportFrom(_, _, _)
ExportFrom(history, i, content) ==
    IF i > Len(history) THEN content
    ELSE ExportFrom(history, i + 1, content \o Block(history[i]))

export_history_as_text(f) == ExportFrom(load_history(f), 1, Header)

----------------------------------------------------------------------------
(* Prompt builder *)

\* Options of the Content Type select box.
ContentTypes ==
    { <<"Q", "u", "o", "t", "e">>,
      <<"P", "o", "e", "m">>,
      <<"H", "a", "i", "k", "u">>,
      <<"M", "o", "t", "i", "v", "a", "t", "i", "o", "n", "a", "l", " ", "S", "a", "y", "i",
        "n", "g">>,
      <<"S", "o", "c", "i", "a", "l", " ", "M", "e", "d", "i", "a", " ", "C", "a", "p", "t",
        "i", "o", "n">>,
      <<"S", "o", "n", "g", " ", "L", "y", "r", "i", "c", "s">>,
      <<"S", "t", "o", "r", "y", " ", "B", "e", "g", "i", "n", "n", "i", "n", "g">> }

\* Options of the Language select box.
Languages ==
    { <<"E", "n", "g", "l", "i", "s", "h">>,
      <<"H", "i", "n", "d", "i">>,
      <<"M", "a", "r", "a", "t", "h", "i">>,
      <<"S", "p", "a", "n", "i", "s", "h">>,
      <<"F", "r", "e", "n", "c", "h">>,
      <<"G", "e", "r", "m", "a", "n">> }

\* Options of the Tone/Style select box.
Tones ==
    { <<"I", "n", "s", "p", "i", "r", "a", "t", "i", "o", "n", "a", "l">>,
      <<"F", "u", "n", "n", "y">>,
      <<"S", "e", "r", "i", "o", "u", "s">>,
      <<"R", "o", "m", "a", "n", "t", "i", "c">>,
      <<"P", "r", "o", "f", "e", "s", "s", "i", "o", "n", "a", "l">> }

\* Options of the Target Audience select box.
Audiences ==
    { <<"G", "e", "n", "e", "r", "a", "l">>,
      <<"K", "i", "d", "s">>,
      <<"A", "d", "u", "l", "t", "s">>,
      <<"P", "r", "o", "f", "e", "s", "s", "i", "o", "n", "a", "l", "s">> }

\* Options of the Rhyme Scheme select box.
RhymeSchemes ==
    { <<"F", "r", "e", "e", " ", "V", "e", "r", "s", "e">>,
      <<"A", "B", "A", "B">>,
      <<"A", "A", "B", "B">>,
      <<"A", "B", "C", "B">> }

\* Keywords typed into the generator page.
Keywords == { <<"L", "o">>, <<"x">> }

\* Position of the length slider used here.
Lengths == { 50 }

\* content_instructions.get(content_type, 'Write content')
content_instructions(content_type, length_words) ==
    CASE content_type = <<"Q", "u", "o", "t", "e">> ->
        <<"W", "r", "i", "t", "e", " ", "a", " ", "m", "e", "m", "o", "r", "a", "b", "l", "e",
          ",", " ", "i", "n", "s", "p", "i", "r", "i", "n", "g", " ", "q", "u", "o", "t", "e">>
      [] content_type = <<"P", "o", "e", "m">> ->
        (<<"C", "r", "e", "a", "t", "e", " ", "a", " ">> \o IntToStr(length_words)
         \o <<"-", "w", "o", "r", "d", " ", "p", "o", "e", "m", " ", "(", "3", "-", "8", " ",
              "l", "i", "n", "e", "s", " ", "p", "r", "e", "f", "e", "r", "r", "e", "d", ")">>)
      [] content_type = <<"H", "a", "i", "k", "u">> ->
        <<"W", "r", "i", "t", "e", " ", "a", " ", "t", "r", "a", "d", "i", "t", "i", "o", "n",
          "a", "l", " ", "3", "-", "l", "i", "n", "e", " ", "H", "a", "i", "k", "u", " ", "(",
          "5", "-", "7", "-", "5", " ", "s", "y", "l", "l", "a", "b", "l", "e", " ", "p", "a",
          "t", "t", "e", "r", "n", ")">>
      [] content_type = <<"M", "o", "t", "i", "v", "a", "t", "i", "o", "n", "a", "l", " ", "S", "a", "y", "i", "n", "g">> ->
        <<"C", "r", "e", "a", "t", "e", " ", "a", "n", " ", "u", "p", "l", "i", "f", "t", "i",
          "n", "g", " ", "m", "o", "t", "i", "v", "a", "t", "i", "o", "n", "a", "l", " ", "s",
          "a", "y", "i", "n", "g">>
      [] content_type = <<"S", "o", "c", "i", "a", "l", " ", "M", "e", "d", "i", "a", " ", "C", "a", "p", "t", "i", "o", "n">> ->
        <<"W", "r", "i", "t", "e", " ", "a", " ", "c", "a", "t", "c", "h", "y", " ", "s", "o",
          "c", "i", "a", "l", " ", "m", "e", "d", "i", "a", " ", "c", "a", "p", "t", "i", "o",
          "n", " ", "(", "u", "n", "d", "e", "r", " ", "2", "8", "0", " ", "c", "h", "a", "r",
          "a", "c", "t", "e", "r", "s", ")">>
      [] content_type = <<"S", "o", "n", "g", " ", "L", "y", "r", "i", "c", "s">> ->
        <<"W", "r", "i", "t", "e", " ", "s", "o", "n", "g", " ", "l", "y", "r", "i", "c", "s",
          " ", "w", "i", "t", "h", " ", "r", "h", "y", "t", "h", "m", " ", "a", "n", "d", " ",
          "f", "l", "o", "w">>
      [] content_type = <<"S", "t", "o", "r", "y", " ", "B", "e", "g", "i", "n", "n", "i", "n", "g">> ->
        <<"W", "r", "i", "t", "e", " ", "a", "n", " ", "e", "n", "g", "a", "g", "i", "n", "g",
          " ", "s", "t", "o", "r", "y", " ", "o", "p", "e", "n", "i", "n", "g", " ", "p", "a",
          "r", "a", "g", "r", "a", "p", "h">>
      [] OTHER ->
        <<"W", "r", "i", "t", "e", " ", "c", "o", "n", "t", "e", "n", "t">>

\* language_map.get(language, '')
language_map(language) ==
    CASE language = <<"E", "n", "g", "l", "i", "s", "h">> ->
        <<>>
      [] language = <<"H", "i", "n", "d", "i">> ->
        <<"W", "r", "i", "t", "e", " ", "i", "n", " ", "H", "i", "n", "d", "i", " ", "l", "a",
          "n", "g", "u", "a", "g", "e">>
      [] language = <<"M", "a", "r", "a", "t", "h", "i">> ->
        <<"W", "r", "i", "t", "e", " ", "i", "n", " ", "M", "a", "r", "a", "t", "h", "i", " ",
          "l", "a", "n", "g", "u", "a", "g", "e">>
      [] language = <<"S", "p", "a", "n", "i", "s", "h">> ->
        <<"W", "r", "i", "t", "e", " ", "i", "n", " ", "S", "p", "a", "n", "i", "s", "h", " ",
          "l", "a", "n", "g", "u", "a", "g", "e">>
      [] language = <<"F", "r", "e", "n", "c", "h">> ->
        <<"W", "r", "i", "t", "e", " ", "i", "n", " ", "F", "r", "e", "n", "c", "h", " ", "l",
          "a", "n", "g", "u", "a", "g", "e">>
      [] language = <<"G", "e", "r", "m", "a", "n">> ->
        <<"W", "r", "i", "t", "e", " ", "i", "n", " ", "G", "e", "r", "m", "a", "n", " ", "l",
          "a", "n", "g", "u", "a", "g", "e">>
      [] OTHER ->
        <<>>

\* tone_map.get(tone, '')
tone_map(tone) ==
    CASE tone = <<"F", "u", "n", "n", "y">> ->
        <<"M", "a", "k", "e", " ", "i", "t", " ", "h", "u", "m", "o", "r", "o", "u", "s", " ",
          "a", "n", "d", " ", "w", "i", "t", "t", "y">>
      [] tone = <<"S", "e", "r", "i", "o", "u", "s">> ->
        <<"K", "e", "e", "p", " ", "i", "t", " ", "t", "h", "o", "u", "g", "h", "t", "f", "u",
          "l", " ", "a", "n", "d", " ", "p", "r", "o", "f", "o", "u", "n", "d">>
      [] tone = <<"R", "o", "m", "a", "n", "t", "i", "c">> ->
        <<"M", "a", "k", "e", " ", "i", "t", " ", "r", "o", "m", "a", "n", "t", "i", "c", " ",
          "a", "n", "d", " ", "h", "e", "a", "r", "t", "f", "e", "l", "t">>
      [] tone = <<"P", "r", "o", "f", "e", "s", "s", "i", "o", "n", "a", "l">> ->
        <<"K", "e", "e", "p", " ", "i", "t", " ", "p", "r", "o", "f", "e", "s", "s", "i", "o",
          "n", "a", "l", " ", "a", "n", "d", " ", "p", "o", "l", "i", "s", "h", "e", "d">>
      [] tone = <<"I", "n", "s", "p", "i", "r", "a", "t", "i", "o", "n", "a", "l">> ->
        <<"M", "a", "k", "e", " ", "i", "t", " ", "u", "p", "l", "i", "f", "t", "i", "n", "g",
          " ", "a", "n", "d", " ", "m", "o", "t", "i", "v", "a", "t", "i", "n", "g">>
      [] OTHER ->
        <<>>

\* audience_map.get(audience, '')
audience_map(audience) ==
    CASE audience = <<"K", "i", "d", "s">> ->
        <<"U", "s", "e", " ", "s", "i", "m", "p", "l", "e", ",", " ", "f", "u", "n", " ", "l",
          "a", "n", "g", "u", "a", "g", "e", " ", "s", "u", "i", "t", "a", "b", "l", "e", " ",
          "f", "o", "r", " ", "c", "h", "i", "l", "d", "r", "e", "n">>
      [] audience = <<"A", "d", "u", "l", "t", "s">> ->
        <<"U", "s", "e", " ", "m", "a", "t", "u", "r", "e", ",", " ", "s", "o", "p", "h", "i",
          "s", "t", "i", "c", "a", "t", "e", "d", " ", "l", "a", "n", "g", "u", "a", "g", "e">>
      [] audience = <<"P", "r", "o", "f", "e", "s", "s", "i", "o", "n", "a", "l", "s">> ->
        <<"U", "s", "e", " ", "f", "o", "r", "m", "a", "l", ",", " ", "b", "u", "s", "i", "n",
          "e", "s", "s", "-", "a", "p", "p", "r", "o", "p", "r", "i", "a", "t", "e", " ", "l",
          "a", "n", "g", "u", "a", "g", "e">>
      [] audience = <<"G", "e", "n", "e", "r", "a", "l">> ->
        <<>>
      [] OTHER ->
        <<>>

\* rhyme_map.get(rhyme_scheme, '')
rhyme_map(rhyme_scheme) ==
    CASE rhyme_scheme = <<"F", "r", "e", "e", " ", "V", "e", "r", "s", "e">> ->
        <<"U", "s", "e", " ", "f", "r", "e", "e", " ", "v", "e", "r", "s", "e", " ", "(", "n",
          "o", " ", "s", "p", "e", "c", "i", "f", "i", "c", " ", "r", "h", "y", "m", "e", " ",
          "s", "c", "h", "e", "m", "e", ")">>
      [] rhyme_scheme = <<"A", "B", "A", "B">> ->
        <<"U", "s", "e", " ", "A", "B", "A", "B", " ", "r", "h", "y", "m", "e", " ", "s", "c",
          "h", "e", "m", "e">>
      [] rhyme_scheme = <<"A", "A", "B", "B">> ->
        <<"U", "s", "e", " ", "A", "A", "B", "B", " ", "r", "h", "y", "m", "e", " ", "s", "c",
          "h", "e", "m", "e", " ", "(", "c", "o", "u", "p", "l", "e", "t", "s", ")">>
      [] rhyme_scheme = <<"A", "B", "C", "B">> ->
        <<"U", "s", "e", " ", "A", "B", "C", "B", " ", "r", "h", "y", "m", "e", " ", "s", "c",
          "h", "e", "m", "e">>
      [] OTHER ->
        <<>>

Whitespace == {" ", "\n", "\t"}

\* str.strip()
RECURSIVE strip(_)
strip(s) ==
    IF s = <<>> THEN s
    ELSE IF Head(s) \in Whitespace THEN strip(Tail(s))
    ELSE IF s[Len(s)] \in Whitespace THEN strip(SubSeq(s, 1, Len(s) - 1))
    ELSE s

\* The first sentence of the prompt: instruction and keyword.
Base(keyword, content_type, length_words) ==
    content_instructions(content_type, length_words)
    \o <<" ", "a", "b", "o", "u", "t", " ", "'">> \o keyword \o <<"'", ".", " ">>

LanguageClause(language) ==
    IF language # <<"E", "n", "g", "l", "i", "s", "h">>
    THEN language_map(language) \o <<".", " ">>
    ELSE <<>>

ToneClause(tone) ==
    IF tone # <<"I", "n", "s", "p", "i", "r", "a", "t", "i", "o", "n", "a", "l">>
    THEN tone_map(tone) \o <<".", " ">>
    ELSE <<>>

AudienceClause(audience) ==
    IF audience # <<"G", "e", "n", "e", "r", "a", "l">>
    THEN audience_map(audience) \o <<".", " ">>
    ELSE <<>>

\* The rhyme clause added for every content type.
RhymeClause_any_type(content_type, rhyme_scheme) ==
    IF rhyme_scheme # <<"F", "r", "e", "e", " ", "V", "e", "r", "s", "e">>
    THEN rhyme_map(rhyme_scheme) \o <<".", " ">>
    ELSE <<>>

RhymeClause(content_type, rhyme_scheme) ==
    IF content_type = Poem
       /\ rhyme_scheme # <<"F", "r", "e", "e", " ", "V", "e", "r", "s", "e">>
    THEN rhyme_map(rhyme_scheme) \o <<".", " ">>
    ELSE <<>>

\* build_prompt with the language clause added after the audience clause.
build_prompt_language_late(keyword, content_type, language, tone, audience, rhyme_scheme, length_words) ==
    strip(Base(keyword, content_type, length_words)
          \o ToneClause(tone)
          \o AudienceClause(audience)
          \o LanguageClause(language)
          \o RhymeClause(content_type, rhyme_scheme))

build_prompt(keyword, content_type, language, tone, audience, rhyme_scheme, length_words) ==
    strip(Base(keyword, content_type, length_words)
          \o LanguageClause(language)
          \o ToneClause(tone)
          \o AudienceClause(audience)
          \o RhymeClause(content_type, rhyme_scheme))

----------------------------------------------------------------------------
(* Generation client *)

\* What the environment holds for an API key: no variable, an empty one, a value.
KeyStates == {"unset", "blank", "set"}

\* MODEL_PROVIDER, GEMINI_API_KEY, OPENAI_API_KEY and whether  import openai  works.
Configs ==
    [provider : {"gemini", "openai", "other"},
     gemini_key : KeyStates,
     openai_key : KeyStates,
     openai_installed : BOOLEAN]

\* What the provider answers to one request.
\*   transport_error  the call raises (no connection, timeout)
\*   http_error       a response with a non-success status
\*   bad_json         a success status with a body that is not JSON
\*   no_candidates    a well-formed body without candidates / choices
\*   no_parts         a first candidate without parts / content
\*   text             a first candidate with text
Responses ==
    [kind : {"transport_error", "http_error", "bad_json", "no_candidates", "no_parts"},
     text : {<<>>}]
    \cup [kind : {"text"}, text : {<<"h", "i">>, <<" ", "o", "k", "\n">>, <<" ">>}]

NoResponse == <<"N", "o", " ", "r", "e", "s", "p", "o", "n", "s", "e", " ",
                "g", "e", "n", "e", "r", "a", "t", "e", "d">>

\* A call that raises, after this many requests to the provider.
Raised(requests) == [ok |-> FALSE, value |-> <<>>, requests |-> requests]

\* A call that returns value, after this many requests to the provider.
Returned(value, requests) == [ok |-> TRUE, value |-> value, requests |-> requests]

\* generate_with_gemini sending the request again after a failure.
generate_with_gemini_retry(api_key, response) ==
    IF api_key = "unset" THEN Raised(0)
    ELSE CASE response.kind \in {"transport_error", "http_error", "bad_json"} -> Raised(2)
           [] response.kind \in {"no_candidates", "no_parts"} -> Returned(NoResponse, 1)
           [] OTHER -> Returned(strip(response.text), 1)

\* generate_with_gemini without the  if not resp.ok  check.
generate_with_gemini_unchecked(api_key, response) ==
    IF api_key = "unset" THEN Raised(0)
    ELSE CASE response.kind \in {"transport_error", "bad_json"} -> Raised(1)
           [] response.kind \in {"http_error", "no_candidates", "no_parts"} ->
                Returned(NoResponse, 1)
           [] OTHER -> Returned(strip(response.text), 1)

generate_with_gemini(api_key, response) ==
    IF api_key = "unset" THEN Raised(0)
    ELSE CASE response.kind \in {"transport_error", "http_error", "bad_json"} -> Raised(1)
           [] response.kind \in {"no_candidates", "no_parts"} -> Returned(NoResponse, 1)
           [] OTHER -> Returned(strip(response.text), 1)

generate_with_openai(installed, response) ==
    IF ~installed THEN Raised(0)
    ELSE IF response.kind = "text" THEN Returned(strip(response.text), 1)
         ELSE Raised(1)

generate_text(config, response) ==
    CASE config.provider = "gemini" ->
            IF config.gemini_key # "set" THEN Raised(0)
            ELSE generate_with_gemini(config.gemini_key, response)
      [] config.provider = "openai" ->
            IF config.openai_key # "set" THEN Raised(0)
            ELSE generate_with_openai(config.openai_installed, response)
      [] OTHER -> Raised(0)

----------------------------------------------------------------------------
(* History page: what it shows and what its bulk buttons do *)

\* filtered_history of show_history_page
filtered_history(f, search_query, filter_type, filter_favorite) ==
    IF search_query # <<>> \/ filter_type # All \/ filter_favorite
    THEN search_history(f, search_query, filter_type, filter_favorite)
    ELSE load_history(f)

\* The Clear All History button dumping the loaded history.
Cleared_kept(history) == history

\* The list the Clear All History button dumps.
Cleared(history) == <<>>

\* updated_history of the Delete All Filtered button
WithoutFiltered(f, filtered) ==
    LET filtered_ids == { filtered[i].id : i \in 1..Len(filtered) }
    IN  SelectSeq(load_history(f), LAMBDA item : item.id \notin filtered_ids)

----------------------------------------------------------------------------
(* One session, each call or click running to its end *)

\* The record of an operation in  last .
Op(name, arg, pre, ret) ==
    [op |-> name, arg |-> arg, pre |-> pre, ret |-> ret, twice |-> FALSE, pre2 |-> <<>>]

\* Locals of a handler that is not running.
NoLocals == [seen |-> <<>>, history |-> <<>>, replaced |-> Absent]

Init ==
    /\ file \in {Absent, Truncated, Dump(<<>>)}
    /\ now = 0
    /\ confirm_clear_all = [s \in Sessions |-> FALSE]
    /\ confirm_bulk_delete = [s \in Sessions |-> FALSE]
    /\ pc = [s \in Sessions |-> "idle"]
    /\ buf = [s \in Sessions |-> NoLocals]
    /\ current_content = <<>>
    /\ confirm_delete = [item_id \in Ids |-> FALSE]
    /\ armed = [item_id \in Ids |-> <<>>]
    /\ last = Op("init", 0, <<>>, FALSE)

\* main(), quick stats: history = load_history()
Load ==
    /\ last' = Op("load", file, load_history(file), load_history(file))
    /\ UNCHANGED <<file, now, confirm_clear_all, confirm_bulk_delete, pc, buf, page>>

\* Save to History button: save_to_history(content)
Save(record) ==
    /\ now < MaxSaves
    /\ file' = save_to_history(file, record, now)
    /\ now' = now + 1
    /\ last' = Op("save", record, load_history(file), TRUE)
    /\ UNCHANGED <<confirm_clear_all, confirm_bulk_delete, pc, buf, page>>

\* toggle_favorite(item_id)
Toggle(item_id) ==
    /\ file' = toggle_favorite(file, item_id)
    /\ last' = [Op("toggle", item_id, load_history(file), TRUE) EXCEPT
                   !.twice = (last.op = "toggle" /\ last.arg = item_id),
                   !.pre2 = IF last.op = "toggle" /\ last.arg = item_id
                            THEN last.pre ELSE <<>>]
    /\ UNCHANGED <<now, confirm_clear_all, confirm_bulk_delete, pc, buf, page>>

\* delete_content(item_id)
Delete(item_id) ==
    /\ file' = delete_content(file, item_id).file
    /\ last' = Op("delete", item_id, load_history(file), delete_content(file, item_id).ret)
    /\ UNCHANGED <<now, confirm_clear_all, confirm_bulk_delete, pc, buf, page>>

\* search_history(query, filter_type, filter_favorite)
Search(query, filter_type, filter_favorite) ==
    /\ last' = Op("search", <<query, filter_type, filter_favorite>>, load_history(file),
                  search_history(file, query, filter_type, filter_favorite))
    /\ UNCHANGED <<file, now, confirm_clear_all, confirm_bulk_delete, pc, buf, page>>

\* Export All button: export_history_as_text()
Export ==
    /\ load_history(file) # <<>>
    /\ last' = Op("export", 0, load_history(file), export_history_as_text(file))
    /\ UNCHANGED <<file, now, confirm_clear_all, confirm_bulk_delete, pc, buf, page>>

\* Clear All History button that clears on the first click.
ClearAllClick_unconfirmed(s) ==
    /\ load_history(file) # <<>>
    /\ file' = Dump(Cleared(load_history(file)))
    /\ confirm_clear_all' = [confirm_clear_all EXCEPT ![s] = FALSE]
    /\ last' = Op("clear_all", s, load_history(file), TRUE)
    /\ UNCHANGED <<now, confirm_bulk_delete, pc, buf, page>>

\* Clear All History button
ClearAllClick(s) ==
    /\ load_history(file) # <<>>
    /\ IF confirm_clear_all[s]
       THEN /\ file' = Dump(Cleared(load_history(file)))
            /\ confirm_clear_all' = [confirm_clear_all EXCEPT ![s] = FALSE]
            /\ last' = Op("clear_all", s, load_history(file), TRUE)
       ELSE /\ confirm_clear_all' = [confirm_clear_all EXCEPT ![s] = TRUE]
            /\ last' = Op("clear_all", s, load_history(file), FALSE)
            /\ UNCHANGED file
    /\ UNCHANGED <<now, confirm_bulk_delete, pc, buf, page>>

\* Cancel Clear All button
CancelClearAll(s) ==
    /\ load_history(file) # <<>>
    /\ confirm_clear_all[s]
    /\ confirm_clear_all' = [confirm_clear_all EXCEPT ![s] = FALSE]
    /\ last' = Op("cancel_clear_all", s, load_history(file), FALSE)
    /\ UNCHANGED <<file, now, confirm_bulk_delete, pc, buf, page>>

\* Delete All Filtered button
BulkDeleteClick(s, search_query, filter_type, filter_favorite) ==
    LET filtered == filtered_history(file, search_query, filter_type, filter_favorite)
    IN  /\ load_history(file) # <<>>
        /\ filtered # <<>>
        /\ IF confirm_bulk_delete[s]
           THEN /\ file' = Dump(WithoutFiltered(file, filtered))
                /\ confirm_bulk_delete' = [confirm_bulk_delete EXCEPT ![s] = FALSE]
                /\ last' = Op("bulk_delete", filtered, load_history(file), TRUE)
           ELSE /\ confirm_bulk_delete' = [confirm_bulk_delete EXCEPT ![s] = TRUE]
                /\ last' = Op("bulk_delete", filtered, load_history(file), FALSE)
                /\ UNCHANGED file
        /\ UNCHANGED <<now, confirm_clear_all, pc, buf, page>>

\* Cancel button of Delete All Filtered
CancelBulkDelete(s, search_query, filter_type, filter_favorite) ==
    /\ load_history(file) # <<>>
    /\ filtered_history(file, search_query, filter_type, filter_favorite) # <<>>
    /\ confirm_bulk_delete[s]
    /\ confirm_bulk_delete' = [confirm_bulk_delete EXCEPT ![s] = FALSE]
    /\ last' = Op("cancel_bulk_delete", s, load_history(file), FALSE)
    /\ UNCHANGED <<file, now, confirm_clear_all, pc, buf, page>>

Next ==
    \/ Load
    \/ \E record \in Contents : Save(record)
    \/ \E item_id \in Ids : Toggle(item_id)
    \/ \E item_id \in Ids : Delete(item_id)
    \/ \E flt \in Filters : Search(flt[1], flt[2], flt[3])
    \/ Export
    \/ ClearAllClick(1)
    \/ CancelClearAll(1)
    \/ \E flt \in Filters : BulkDeleteClick(1, flt[1], flt[2], flt[3])
    \/ \E flt \in Filters : CancelBulkDelete(1, flt[1], flt[2], flt[3])

Spec == Init /\ [][Next]_vars

----------------------------------------------------------------------------
(* Two sessions on the same file.  A handler reads the file, opens it for   *)
(* writing, which empties it, and stores its text when it closes it; the    *)
(* other session's steps can fall between these.                            *)

\* save_to_history up to the open: history = load_history(), the record is stamped
SaveRead(s, record) ==
    /\ pc[s] = "idle"
    /\ now < MaxSaves
    /\ buf' = [buf EXCEPT ![s] = [seen |-> load_history(file),
                                  history |-> Stamped(load_history(file), record, now),
                                  replaced |-> Absent]]
    /\ now' = now + 1
    /\ pc' = [pc EXCEPT ![s] = "save_loaded"]
    /\ last' = Op("save_read", s, file, FALSE)
    /\ UNCHANGED <<file, confirm_clear_all, confirm_bulk_delete, page>>

\* save_to_history: open("content_history.json", "w")
SaveOpen(s) ==
    /\ pc[s] = "save_loaded"
    /\ file' = Truncated
    /\ buf' = [buf EXCEPT ![s].replaced = file]
    /\ pc' = [pc EXCEPT ![s] = "save_opened"]
    /\ last' = Op("save_open", s, file, FALSE)
    /\ UNCHANGED <<now, confirm_clear_all, confirm_bulk_delete, page>>

\* save_to_history: json.dump(history, f) and the end of the with block
SaveClose(s) ==
    /\ pc[s] = "save_opened"
    /\ file' \in Written(file, buf[s].history)
    /\ pc' = [pc EXCEPT ![s] = "idle"]
    /\ buf' = [buf EXCEPT ![s] = NoLocals]
    /\ last' = Op("save_close", s, buf[s], TRUE)
    /\ UNCHANGED <<now, confirm_clear_all, confirm_bulk_delete, page>>

\* Clear All History button, first click: only the flag is set
ClearArm(s) ==
    /\ pc[s] = "idle"
    /\ load_history(file) # <<>>
    /\ ~confirm_clear_all[s]
    /\ confirm_clear_all' = [confirm_clear_all EXCEPT ![s] = TRUE]
    /\ last' = Op("clear_all", s, file, FALSE)
    /\ UNCHANGED <<file, now, confirm_bulk_delete, pc, buf, page>>

\* Clear All History button, click with the flag set: the page has loaded the history
ClearRead(s) ==
    /\ pc[s] = "idle"
    /\ load_history(file) # <<>>
    /\ confirm_clear_all[s]
    /\ buf' = [buf EXCEPT ![s] = [seen |-> load_history(file),
                                  history |-> Cleared(load_history(file)),
                                  replaced |-> Absent]]
    /\ pc' = [pc EXCEPT ![s] = "clear_loaded"]
    /\ last' = Op("clear_read", s, file, FALSE)
    /\ UNCHANGED <<file, now, confirm_clear_all, confirm_bulk_delete, page>>

\* Clear All History button: open("content_history.json", "w")
ClearOpen(s) ==
    /\ pc[s] = "clear_loaded"
    /\ file' = Truncated
    /\ buf' = [buf EXCEPT ![s].replaced = file]
    /\ pc' = [pc EXCEPT ![s] = "clear_opened"]
    /\ last' = Op("clear_open", s, file, FALSE)
    /\ UNCHANGED <<now, confirm_clear_all, confirm_bulk_delete, page>>

\* Clear All History button: json.dump([], f), the end of the with block, the flag reset
ClearClose(s) ==
    /\ pc[s] = "clear_opened"
    /\ file' \in Written(file, buf[s].history)
    /\ confirm_clear_all' = [confirm_clear_all EXCEPT ![s] = FALSE]
    /\ pc' = [pc EXCEPT ![s] = "idle"]
    /\ buf' = [buf EXCEPT ![s] = NoLocals]
    /\ last' = Op("clear_close", s, buf[s], TRUE)
    /\ UNCHANGED <<now, confirm_bulk_delete, page>>

\* Cancel Clear All button, from a session that is not inside a handler
CancelClear(s) ==
    /\ pc[s] = "idle"
    /\ CancelClearAll(s)

NextConc ==
    \/ Load
    \/ \E s \in Sessions, record \in Contents : SaveRead(s, record)
    \/ \E s \in Sessions : SaveOpen(s)
    \/ \E s \in Sessions : SaveClose(s)
    \/ \E s \in Sessions : ClearArm(s)
    \/ \E s \in Sessions : ClearRead(s)
    \/ \E s \in Sessions : ClearOpen(s)
    \/ \E s \in Sessions : ClearClose(s)
    \/ \E s \in Sessions : CancelClear(s)

SpecConc == Init /\ [][NextConc]_vars

----------------------------------------------------------------------------
(* The prompt builder and the generation client called on their own *)

\* build_prompt(keyword, content_type, language, tone, audience, rhyme_scheme, length_words)
BuildPrompt(keyword, content_type, language, tone, audience, rhyme_scheme, length_words) ==
    /\ pc[1] = "idle"
    /\ pc' = [pc EXCEPT ![1] = "returned"]
    /\ last' = Op("build_prompt",
                  [keyword |-> keyword, content_type |-> content_type,
                   language |-> language, tone |-> tone, audience |-> audience,
                   rhyme_scheme |-> rhyme_scheme, length_words |-> length_words],
                  load_history(file),
                  build_prompt(keyword, content_type, language, tone, audience,
                               rhyme_scheme, length_words))
    /\ UNCHANGED <<file, now, confirm_clear_all, confirm_bulk_delete, buf, page>>

\* generate_text(prompt) under a configuration, the provider answering with response
GenerateText(config, response) ==
    /\ pc[1] = "idle"
    /\ pc' = [pc EXCEPT ![1] = "returned"]
    /\ last' = Op("generate_text", [config |-> config, response |-> response],
                  load_history(file), generate_text(config, response))
    /\ UNCHANGED <<file, now, confirm_clear_all, confirm_bulk_delete, buf, page>>

\* The caller takes the result and is ready for the next call.
Return ==
    /\ pc[1] = "returned"
    /\ pc' = [pc EXCEPT ![1] = "idle"]
    /\ last' = Op("init", 0, <<>>, FALSE)
    /\ UNCHANGED <<file, now, confirm_clear_all, confirm_bulk_delete, buf, page>>

NextFn ==
    \/ \E keyword \in Keywords, content_type \in ContentTypes, language \in Languages,
          tone \in Tones, audience \in Audiences, rhyme_scheme \in RhymeSchemes,
          length_words \in Lengths :
           BuildPrompt(keyword, content_type, language, tone, audience,
                       rhyme_scheme, length_words)
    \/ \E config \in Configs, response \in Responses : GenerateText(config, response)
    \/ Return

SpecFn == Init /\ [][NextFn]_vars

----------------------------------------------------------------------------
(* The pages of one session: the buttons of the generator page and the      *)
(* per-record buttons of the history page, each click running its script to *)
(* the end.                                                                 *)

\* What the generator page's widgets hold when a button is clicked.
Forms ==
    { [keyword |-> <<" ", "x">>, content_type |-> Poem,
       language |-> <<"F", "r", "e", "n", "c", "h">>,
       tone |-> <<"F", "u", "n", "n", "y">>,
       audience |-> <<"K", "i", "d", "s">>,
       rhyme_scheme |-> <<"A", "B", "A", "B">>,
       length_words |-> 50, tags |-> <<"l", "O", " ">>],
      [keyword |-> <<" ">>, content_type |-> Poem,
       language |-> <<"E", "n", "g", "l", "i", "s", "h">>,
       tone |-> <<"F", "u", "n", "n", "y">>,
       audience |-> <<"K", "i", "d", "s">>,
       rhyme_scheme |-> <<"F", "r", "e", "e", " ", "V", "e", "r", "s", "e">>,
       length_words |-> 50, tags |-> <<>>] }

\* The environment a page is run under and the provider's answer to its
\* request, if it sends one: the key set and each kind of answer, the key
\* blank, and the other provider answering without choices.
AppRuns ==
    { run \in Configs \X Responses :
        /\ run[1].openai_installed
        /\ run[1].gemini_key = run[1].openai_key
        /\ \/ /\ run[1].provider = "gemini"
              /\ run[1].gemini_key = "set"
              /\ \/ run[2].kind \in {"http_error", "no_candidates"}
                 \/ run[2].text \in {<<"h", "i">>, <<" ">>}
           \/ /\ run[1].provider = "gemini"
              /\ run[1].gemini_key = "blank"
              /\ run[2].kind = "transport_error"
           \/ /\ run[1].provider = "openai"
              /\ run[1].openai_key = "set"
              /\ run[2].kind = "no_candidates" }

\* The dict the Generate button stores in st.session_state.current_content.
Submitted(form, output) ==
    [keyword |-> strip(form.keyword), content_type |-> form.content_type,
     language |-> form.language, tone |-> form.tone, audience |-> form.audience,
     rhyme_scheme |-> form.rhyme_scheme, length_words |-> form.length_words,
     tags |-> strip(form.tags), output |-> output]

\* Generate Content button saving what it generated.
GenerateClick_autosave(form, config, response) ==
    LET keyword == strip(form.keyword)
        prompt == build_prompt(keyword, form.content_type, form.language, form.tone,
                               form.audience, form.rhyme_scheme, form.length_words)
        result == generate_text(config, response)
    IN  /\ pc[1] = "idle"
        /\ IF keyword = <<>>
           THEN /\ last' = Op("generate_warning", form.keyword, load_history(file), FALSE)
                /\ UNCHANGED <<file, current_content>>
           ELSE /\ last' = Op("generate", prompt, load_history(file), result)
                /\ IF result.ok /\ result.value # <<>>
                   THEN /\ current_content' = <<Submitted(form, result.value)>>
                        /\ file' = save_to_history(file, Submitted(form, result.value), now)
                   ELSE UNCHANGED <<file, current_content>>
        /\ UNCHANGED <<now, confirm_clear_all, confirm_bulk_delete, pc, buf,
                       confirm_delete, armed>>

\* Generate Content button dropping the shown content when the generation fails.
GenerateClick_clears(form, config, response) ==
    LET keyword == strip(form.keyword)
        prompt == build_prompt(keyword, form.content_type, form.language, form.tone,
                               form.audience, form.rhyme_scheme, form.length_words)
        result == generate_text(config, response)
    IN  /\ pc[1] = "idle"
        /\ IF keyword = <<>>
           THEN /\ last' = Op("generate_warning", form.keyword, load_history(file), FALSE)
                /\ UNCHANGED current_content
           ELSE /\ last' = Op("generate", prompt, load_history(file), result)
                /\ IF result.ok /\ result.value # <<>>
                   THEN current_content' = <<Submitted(form, result.value)>>
                   ELSE current_content' = <<>>
        /\ UNCHANGED <<file, now, confirm_clear_all, confirm_bulk_delete, pc, buf,
                       confirm_delete, armed>>

\* Generate Content button
GenerateClick(form, config, response) ==
    LET keyword == strip(form.keyword)
        prompt == build_prompt(keyword, form.content_type, form.language, form.tone,
                               form.audience, form.rhyme_scheme, form.length_words)
        result == generate_text(config, response)
    IN  /\ pc[1] = "idle"
        /\ IF keyword = <<>>
           THEN /\ last' = Op("generate_warning", form.keyword, load_history(file), FALSE)
                /\ UNCHANGED current_content
           ELSE /\ last' = Op("generate", prompt, load_history(file), result)
                /\ IF result.ok /\ result.value # <<>>
                   THEN current_content' = <<Submitted(form, result.value)>>
                   ELSE UNCHANGED current_content
        /\ UNCHANGED <<file, now, confirm_clear_all, confirm_bulk_delete, pc, buf,
                       confirm_delete, armed>>

\* Regenerate button, shown while there is a current content
RegenerateClick(config, response) ==
    /\ pc[1] = "idle"
    /\ current_content # <<>>
    /\ LET content == current_content[1]
           prompt == build_prompt(content.keyword, content.content_type, content.language,
                                  content.tone, content.audience, content.rhyme_scheme,
                                  content.length_words)
           result == generate_text(config, response)
       IN  /\ last' = Op("regenerate", prompt, load_history(file), result)
           /\ IF result.ok /\ result.value # <<>>
              THEN current_content' = <<[content EXCEPT !.output = result.value]>>
              ELSE UNCHANGED current_content
    /\ UNCHANGED <<file, now, confirm_clear_all, confirm_bulk_delete, pc, buf,
                   confirm_delete, armed>>

\* Save to History button, shown while there is a current content.  The dict
\* save_to_history stamps is the one session state holds.
SaveClick ==
    /\ pc[1] = "idle"
    /\ current_content # <<>>
    /\ now < MaxSaves
    /\ LET history == Stamped(load_history(file), current_content[1], now)
       IN  /\ file' = save_to_history(file, current_content[1], now)
           /\ current_content' = <<history[Len(history)]>>
    /\ now' = now + 1
    /\ last' = Op("save_click", current_content[1], load_history(file), TRUE)
    /\ UNCHANGED <<confirm_clear_all, confirm_bulk_delete, pc, buf, confirm_delete, armed>>

\* The records of the list that get their buttons: the loop runs from the newest
\* record down and stops at the first widget key, made of the id, it has used before.
Rendered(filtered, i) ==
    /\ i \in 1..Len(filtered)
    /\ \A j, k \in i..Len(filtered) : j # k => filtered[j].id # filtered[k].id

\* Delete button of the i-th record of the filtered view
DeleteClick(search_query, filter_type, filter_favorite, i) ==
    LET filtered == filtered_history(file, search_query, filter_type, filter_favorite)
    IN  /\ pc[1] = "idle"
        /\ load_history(file) # <<>>
        /\ Rendered(filtered, i)
        /\ LET item == filtered[i]
               deleted == delete_content(file, item.id)
           IN  IF confirm_delete[item.id]
               THEN /\ file' = deleted.file
                    /\ confirm_delete' = IF deleted.ret
                                         THEN [confirm_delete EXCEPT ![item.id] = FALSE]
                                         ELSE confirm_delete
                    /\ armed' = IF deleted.ret THEN [armed EXCEPT ![item.id] = <<>>]
                                ELSE armed
                    /\ last' = Op("delete_click", item, load_history(file),
                                  [called |-> TRUE, armed_by |-> armed[item.id]])
               ELSE /\ confirm_delete' = [confirm_delete EXCEPT ![item.id] = TRUE]
                    /\ armed' = [armed EXCEPT ![item.id] = item.timestamp]
                    /\ last' = Op("delete_click", item, load_history(file),
                                  [called |-> FALSE, armed_by |-> <<>>])
                    /\ UNCHANGED file
        /\ UNCHANGED <<now, confirm_clear_all, confirm_bulk_delete, pc, buf, current_content>>

\* Cancel button of the i-th record of the filtered view, shown while its flag is set
CancelDeleteClick(search_query, filter_type, filter_favorite, i) ==
    LET filtered == filtered_history(file, search_query, filter_type, filter_favorite)
    IN  /\ pc[1] = "idle"
        /\ load_history(file) # <<>>
        /\ Rendered(filtered, i)
        /\ confirm_delete[filtered[i].id]
        /\ confirm_delete' = [confirm_delete EXCEPT ![filtered[i].id] = FALSE]
        /\ armed' = [armed EXCEPT ![filtered[i].id] = <<>>]
        /\ last' = Op("cancel_delete", filtered[i], load_history(file), FALSE)
        /\ UNCHANGED <<file, now, confirm_clear_all, confirm_bulk_delete, pc, buf,
                       current_content>>

\* The positions of a list of records on the history page.
Positions == 1..(MaxSaves + 1)

\* Settings of the search box and the filters while the record buttons are
\* clicked: the search box empty, every type, the favorites box unchecked.
PageFilters == { <<(<<>>), All, FALSE>> }

NextApp ==
    \/ \E form \in Forms, run \in AppRuns : GenerateClick(form, run[1], run[2])
    \/ \E run \in AppRuns : RegenerateClick(run[1], run[2])
    \/ SaveClick
    \/ \E flt \in PageFilters, i \in Positions : DeleteClick(flt[1], flt[2], flt[3], i)
    \/ \E flt \in PageFilters, i \in Positions : CancelDeleteClick(flt[1], flt[2], flt[3], i)
    \/ ClearAllClick(1)
    \/ CancelClearAll(1)

SpecApp == Init /\ [][NextApp]_vars

----------------------------------------------------------------------------
(* Properties *)

\* The history load_history returns from the file as it is now.
Stored == load_history(file)

NoRecordHas(history, item_id) == \A i \in 1..Len(history) : history[i].id # item_id

\* C1: after any sequence of single-session history operations from an absent or
\* empty file, no two records of the loaded history have the same id.
C1_UniqueIds ==
    \A i, j \in 1..Len(Stored) : i # j => Stored[i].id # Stored[j].id

\* C2: after save_to_history(record) the loaded history ends with the saved record,
\* with favorite = false and an id strictly greater than the id of every record
\* that was in the store before the save.
C2_SaveAppendsGreaterId ==
    last.op = "save" =>
        /\ Len(Stored) = Len(last.pre) + 1
        /\ SubSeq(Stored, 1, Len(last.pre)) = last.pre
        /\ LET saved == Stored[Len(Stored)]
           IN  /\ saved.favorite = FALSE
               /\ \A k \in DOMAIN last.arg : saved[k] = last.arg[k]
               /\ \A i \in 1..Len(last.pre) : saved.id > last.pre[i].id

\* C3: delete_content(id) with a record of that id in the store removes exactly one
\* record, the first match, and returns true; with no such record it leaves the
\* store size unchanged and returns false.
C3_DeleteRemovesOne ==
    last.op = "delete" =>
        IF NoRecordHas(last.pre, last.arg)
        THEN Len(Stored) = Len(last.pre) /\ last.ret = FALSE
        ELSE LET i == FirstMatch(last.pre, last.arg)
             IN  /\ Len(Stored) = Len(last.pre) - 1
                 /\ Stored = SubSeq(last.pre, 1, i - 1) \o SubSeq(last.pre, i + 1, Len(last.pre))
                 /\ last.ret = TRUE

\* C5: toggle_favorite(id) applied twice in a row, nothing in between, leaves the
\* loaded history, every favorite flag included, as it was before the first call.
C5_ToggleTwiceRestores ==
    (last.op = "toggle" /\ last.twice) => Stored = last.pre2

\* C5 witness: the second of two toggles of an id that a record has; the first one
\* changed the history.
C5_Witness ==
    /\ last.op = "toggle"
    /\ last.twice
    /\ ~NoRecordHas(last.pre, last.arg)
    /\ last.pre # last.pre2

\* C6: toggle_favorite(id) and delete_content(id) with an id no record has leave
\* the loaded history as it was: same records, same order, same field values;
\* delete_content returns false.
C6_MissingIdNoOp ==
    (last.op \in {"toggle", "delete"} /\ NoRecordHas(last.pre, last.arg)) =>
        /\ Stored = last.pre
        /\ last.op = "delete" => last.ret = FALSE

\* C6 witness: toggle_favorite of an id that none of the stored records has.
C6_Witness ==
    /\ last.op = "toggle"
    /\ Len(last.pre) >= 2
    /\ NoRecordHas(last.pre, last.arg)

\* Two characters that are the same letter, whatever their case.
SameLetter(a, b) ==
    \/ a = b
    \/ \E i \in 1..26 : {a, b} = {UpperCase[i], LowerCase[i]}

\* text contains q when case is ignored.
ContainsIgnoringCase(q, text) ==
    \E offset \in 0..(Len(text) - Len(q)) :
        \A k \in 1..Len(q) : SameLetter(q[k], text[offset + k])

\* C8: search_history(q, "All", false) returns only records of the store whose
\* keyword, output or tags contains q, case ignored.
C8_SearchOnlyMatches ==
    (last.op = "search" /\ last.arg[2] = All /\ last.arg[3] = FALSE) =>
        \A i \in 1..Len(last.ret) :
            /\ \E j \in 1..Len(last.pre) : last.pre[j] = last.ret[i]
            /\ \/ ContainsIgnoringCase(last.arg[1], last.ret[i].keyword)
               \/ ContainsIgnoringCase(last.arg[1], last.ret[i].output)
               \/ ContainsIgnoringCase(last.arg[1], last.ret[i].tags)

\* C8 witness: a search with a non-empty query that keeps some records of the
\* store and leaves others out.
C8_Witness ==
    /\ last.op = "search" /\ last.arg[2] = All /\ last.arg[3] = FALSE
    /\ last.arg[1] # <<>>
    /\ last.ret # <<>>
    /\ Len(last.ret) < Len(last.pre)

\* Position of the first occurrence of sep in text, 0 if there is none.
Find(sep, text) ==
    IF Contains(sep, text)
    THEN CHOOSE i \in 1..Len(text) :
            /\ SubSeq(text, i, i + Len(sep) - 1) = sep
            /\ \A j \in 1..(i - 1) : SubSeq(text, j, j + Len(sep) - 1) # sep
    ELSE 0

\* The pieces of text that end with sep, in order, sep left out.
RECURSIVE Pieces(_, _)
Pieces(sep, text) ==
    LET i == Find(sep, text)
    IN  IF i = 0 THEN <<>>
        ELSE <<SubSeq(text, 1, i - 1)>>
             \o Pieces(sep, SubSeq(text, i + Len(sep), Len(text)))

\* Sum of the lengths of the sequences in seqs.
RECURSIVE TotalLen(_)
TotalLen(seqs) ==
    IF seqs = <<>> THEN 0 ELSE Len(Head(seqs)) + TotalLen(Tail(seqs))

StartsWith(prefix, text) ==
    Len(prefix) <= Len(text) /\ SubSeq(text, 1, Len(prefix)) = prefix

\* C10: export_history_as_text emits exactly one block per stored record, in
\* store order; each block contains its record's id and keyword as literal
\* substrings (on its ID and Keyword lines, which open the block).
C10_ExportBlocks ==
    last.op = "export" =>
        /\ StartsWith(Header, last.ret)
        /\ LET body == SubSeq(last.ret, Len(Header) + 1, Len(last.ret))
               blocks == Pieces(Rule, body)
               idLabel == <<"I", "D", ":", " ">>
               kwLabel == <<"K", "e", "y", "w", "o", "r", "d", ":", " ">>
           IN  /\ Len(blocks) = Len(last.pre)
               /\ Len(body) = TotalLen(blocks) + Len(blocks) * Len(Rule)
               /\ \A k \in 1..Len(blocks) :
                    /\ Contains(IntToStr(last.pre[k].id), blocks[k])
                    /\ Contains(last.pre[k].keyword, blocks[k])
                    /\ StartsWith(idLabel \o IntToStr(last.pre[k].id) \o <<"\n">>
                                  \o kwLabel \o last.pre[k].keyword \o <<"\n">>,
                                  blocks[k])

\* C10 witness: an export of a store whose records differ in keyword and whose
\* ids are not in increasing order.
C10_Witness ==
    /\ last.op = "export"
    /\ Len(last.pre) >= 2
    /\ last.pre[1].keyword # last.pre[2].keyword
    /\ last.pre[1].id >= last.pre[2].id

\* C4: two sessions saving at the same time are not serialized.  The file a
\* finished save_to_history leaves is the history that session read before,
\* plus its one record (or text json.load rejects): nothing another session
\* stored in between is merged in, and the handler ends normally.
C4_LastWriterWins ==
    last.op = "save_close" =>
        /\ pc[last.arg] = "idle"
        /\ \/ Stored = <<>>
           \/ /\ Len(Stored) = Len(last.pre.seen) + 1
              /\ SubSeq(Stored, 1, Len(last.pre.seen)) = last.pre.seen

\* C4 witness: a save has just finished; the file held one saved record when this
\* session opened it and now holds only this session's record.
C4_Witness ==
    /\ last.op = "save_close"
    /\ file.kind = "json"
    /\ Len(Stored) = 1
    /\ Len(load_history(last.pre.replaced)) = 1
    /\ Stored[1] # load_history(last.pre.replaced)[1]
    /\ last.pre.seen = <<>>

\* C7: load_history returns the empty sequence when the file is absent or is not
\* JSON; otherwise it returns the stored records in file order.
C7_LoadHistory ==
    last.op = "load" =>
        /\ (~last.arg.exists \/ last.arg.kind # "json") => last.ret = <<>>
        /\ (last.arg.exists /\ last.arg.kind = "json") => last.ret = last.arg.recs

\* C7 witness: a load of a file whose text starts with records and is not JSON.
C7_Witness ==
    /\ last.op = "load"
    /\ last.arg.kind = "garbage"
    /\ last.arg.recs # <<>>

\* C9: the clear-all write followed by load_history gives the empty sequence,
\* whatever the file held.
C9_ClearThenLoadEmpty ==
    last.op = "clear_close" => Stored = <<>>

\* C9 witness: a clear-all write has just finished on a file that was not JSON
\* when the handler opened it.
C9_Witness ==
    /\ last.op = "clear_close"
    /\ last.pre.replaced.exists
    /\ last.pre.replaced.kind # "json"

\* C17: toggle_favorite(id) changes nothing but the favorite flag of the first
\* record with that id: the number of records, their order and ids, every other
\* field, and the flag of every other record, later records with the same id
\* included, stay as they were.
C17_ToggleFrame ==
    last.op = "toggle" =>
        /\ Len(Stored) = Len(last.pre)
        /\ \A i \in 1..Len(last.pre) :
             IF last.pre[i].id = last.arg
                /\ \A j \in 1..(i - 1) : last.pre[j].id # last.arg
             THEN Stored[i] = [last.pre[i] EXCEPT !.favorite = ~last.pre[i].favorite]
             ELSE Stored[i] = last.pre[i]

\* C17 witness: a toggle of an id that two stored records share.
C17_Witness ==
    /\ last.op = "toggle"
    /\ \E i, j \in 1..Len(last.pre) :
         i < j /\ last.pre[i].id = last.arg /\ last.pre[j].id = last.arg

\* C20: a click on Clear All History empties the file only when the confirmation
\* flag is set, and then the flag is false afterwards; a click with the flag
\* unset only sets it; Cancel Clear All resets the flag; neither of the last two
\* touches the file.
C20_ClearAllConfirmed ==
    [][ /\ last'.op = "clear_all" =>
             IF confirm_clear_all[last'.arg]
             THEN /\ load_history(file') = <<>>
                  /\ ~confirm_clear_all'[last'.arg]
             ELSE /\ file' = file
                  /\ confirm_clear_all'[last'.arg]
        /\ last'.op = "cancel_clear_all" =>
             /\ file' = file
             /\ confirm_clear_all[last'.arg]
             /\ ~confirm_clear_all'[last'.arg]
      ]_vars

\* C20 witness: the clearing click has just emptied a store of two records and
\* the flag is false again.
C20_Witness ==
    /\ last.op = "clear_all"
    /\ last.ret = TRUE
    /\ Len(last.pre) >= 2
    /\ Stored = <<>>
    /\ ~confirm_clear_all[last.arg]

\* C15: a confirmed Delete All Filtered removes exactly the records of the
\* filtered view; the records outside the view stay, unchanged and in order.
C15_BulkDeleteExact ==
    (last.op = "bulk_delete" /\ last.ret = TRUE) =>
        Stored = SelectSeq(last.pre,
                           LAMBDA item : \A i \in 1..Len(last.arg) : last.arg[i] # item)

\* The prompt after its first sentence, the one that ends with the quoted keyword.
AfterBase(prompt, keyword) ==
    LET opening == <<" ", "a", "b", "o", "u", "t", " ", "'">> \o keyword \o <<"'", ".">>
        i == Find(opening, prompt)
    IN  SubSeq(prompt, i + Len(opening), Len(prompt))

RhymeWords == <<"r", "h", "y", "m", "e", " ", "s", "c", "h", "e", "m", "e">>

\* C13: the prompt has a rhyme-scheme clause if and only if content_type is Poem
\* and rhyme_scheme is not Free Verse; the clause then names the chosen scheme.
C13_RhymeClause ==
    last.op = "build_prompt" =>
        LET rest == AfterBase(last.ret, last.arg.keyword)
            poemWithScheme ==
                /\ last.arg.content_type = <<"P", "o", "e", "m">>
                /\ last.arg.rhyme_scheme # <<"F", "r", "e", "e", " ", "V", "e", "r", "s", "e">>
        IN  /\ Contains(RhymeWords, rest) <=> poemWithScheme
            /\ poemWithScheme =>
                 Contains(<<"U", "s", "e", " ">> \o last.arg.rhyme_scheme \o <<" ">> \o RhymeWords,
                          rest)

\* C13 witness: a prompt for a Poem with the ABAB scheme.
C13_Witness ==
    /\ last.op = "build_prompt"
    /\ last.arg.content_type = <<"P", "o", "e", "m">>
    /\ last.arg.rhyme_scheme = <<"A", "B", "A", "B">>
    /\ Contains(<<"U", "s", "e", " ", "A", "B", "A", "B", " ">> \o RhymeWords, last.ret)

WriteIn == <<"W", "r", "i", "t", "e", " ", "i", "n", " ">>

\* C14: for English the prompt has no language clause; for every other language
\* of the select box it has  Write in <language> language , right after the
\* first sentence and so before any tone, audience or rhyme clause.
C14_LanguageClause ==
    last.op = "build_prompt" =>
        LET rest == AfterBase(last.ret, last.arg.keyword)
            clause == WriteIn \o last.arg.language
                      \o <<" ", "l", "a", "n", "g", "u", "a", "g", "e", ".">>
        IN  IF last.arg.language = <<"E", "n", "g", "l", "i", "s", "h">>
            THEN ~Contains(WriteIn, rest)
            ELSE StartsWith(<<" ">> \o clause, rest)

\* C14 witness: a French prompt that also has tone, audience and rhyme clauses.
C14_Witness ==
    /\ last.op = "build_prompt"
    /\ last.arg.language = <<"F", "r", "e", "n", "c", "h">>
    /\ last.arg.tone = <<"F", "u", "n", "n", "y">>
    /\ last.arg.audience = <<"K", "i", "d", "s">>
    /\ last.arg.content_type = <<"P", "o", "e", "m">>
    /\ last.arg.rhyme_scheme = <<"A", "B", "C", "B">>

\* The selected provider's API key is absent.
KeyAbsent(config) ==
    \/ config.provider = "gemini" /\ config.gemini_key # "set"
    \/ config.provider = "openai" /\ config.openai_key # "set"

\* The response carries no text to use.
NoUsableText(response) ==
    \/ response.kind \in {"bad_json", "no_candidates", "no_parts"}
    \/ response.kind = "text" /\ \A i \in 1..Len(response.text) : response.text[i] \in Whitespace

\* C12 as stated: generate_text ends in an error when the key is absent, the HTTP
\* call fails or returns a non-success status, or the response has no usable text.
C12_AlwaysError ==
    (/\ last.op = "generate_text"
     /\ \/ KeyAbsent(last.arg.config)
        \/ last.arg.response.kind \in {"transport_error", "http_error"}
        \/ NoUsableText(last.arg.response))
    => ~last.ret.ok

\* C12 amended: generate_text ends in an error when the key is absent, or the
\* HTTP call fails or returns a non-success status; a well-formed Gemini
\* response without candidate text makes it return  No response generated .
C12_ErrorOrSentinel ==
    last.op = "generate_text" =>
        /\ (\/ KeyAbsent(last.arg.config)
            \/ last.arg.response.kind \in {"transport_error", "http_error"})
           => ~last.ret.ok
        /\ (/\ last.arg.config.provider = "gemini"
            /\ ~KeyAbsent(last.arg.config)
            /\ last.arg.response.kind \in {"no_candidates", "no_parts"})
           => (last.ret.ok /\ last.ret.value = NoResponse)

\* C12 witness: Gemini, key set, a response without candidates, a string returned.
C12_Witness ==
    /\ last.op = "generate_text"
    /\ last.arg.config.provider = "gemini"
    /\ last.arg.config.gemini_key = "set"
    /\ last.arg.response.kind = "no_candidates"
    /\ last.ret.ok

\* C19: one call of generate_text sends at most one request to the provider,
\* also after a failed or empty response, and none when the key is absent.
C19_AtMostOneRequest ==
    last.op = "generate_text" =>
        /\ last.ret.requests <= 1
        /\ KeyAbsent(last.arg.config) => last.ret.requests = 0

\* C19 witness: a call that sent its request, got a failure and ended in an error.
C19_Witness ==
    /\ last.op = "generate_text"
    /\ last.arg.response.kind = "http_error"
    /\ last.ret.requests = 1
    /\ ~last.ret.ok

\* The timestamps of the records of a history; no two saves share one.
Timestamps(history) == { history[i].timestamp : i \in 1..Len(history) }

\* C11: a record enters the history only with a click on Save to History; a click
\* on Generate or Regenerate, ending well or not, leaves the history file as it was.
C11_OnlySaveAdds ==
    [][ /\ last'.op \in {"generate", "generate_warning", "regenerate"} => file' = file
        /\ (\/ Timestamps(load_history(file')) \ Timestamps(load_history(file)) # {}
            \/ Len(load_history(file')) > Len(load_history(file)))
           => last'.op = "save_click"
      ]_vars

\* C11 witness: a regeneration that succeeded with one record stored, the current
\* content differing from what was saved.
C11_Witness ==
    /\ last.op = "regenerate"
    /\ last.ret.ok
    /\ Len(Stored) = 1
    /\ current_content # <<>>
    /\ current_content[1].output # Stored[1].output

\* C18: when generate_text fails inside Generate or Regenerate, the current
\* content and the history file stay as they were and the session is ready for
\* the next click.
C18_FailureLeavesState ==
    [][ (last'.op \in {"generate", "regenerate"} /\ ~last'.ret.ok) =>
            /\ current_content' = current_content
            /\ file' = file
            /\ pc'[1] = "idle"
      ]_vars

\* C18 witness: a generation failed after a request was sent, with a content on
\* the page and a record stored.
C18_Witness ==
    /\ last.op = "generate"
    /\ ~last.ret.ok
    /\ last.ret.requests = 1
    /\ current_content # <<>>
    /\ Stored # <<>>

\* C16: delete_content is called for a record only when the confirmation flag was
\* set by an earlier click on that same record's delete button, with no cancel
\* and no completed deletion of the record in between.
C16_NoSingleClickDelete ==
    (last.op = "delete_click" /\ last.ret.called) =>
        last.ret.armed_by = last.arg.timestamp

====
